---- MODULE Spec2Model ----
(***************************************************************************)
(* clu: a campaign runner that applies a migration to many repositories.   *)
(* The model covers run_migration (src/bin/clu.rs), the per-target         *)
(* pipeline run_migration_task (src/migration.rs), the step results of     *)
(* src/steps and the forge client of src/github.rs.                        *)
(***************************************************************************)
EXTENDS Integers, Sequences, FiniteSets, TLC

\* ---------------------------------------------------------------- bounds
NumTargets == 4
NumSteps == 2
FollowTargets == 3
WideSteps == 1
MaxRuns == 2
PairTargets == 2

\* a limit of four
MaxPulls == 2

ReportTargets == 3

MaxCommands == 3

MaxTail == 4

WorkerLimit_four == 3 + 1

\* for_each_concurrent(3, ...) in run_migration
WorkerLimit == 3

VARIABLES
    phase,            \* position of run_migration
    run,              \* number of the campaign run (1 on the first invocation)
    opts,             \* DryRunOpts: the mode chosen on the command line
    definition_steps, \* definition.steps of the state file: the number of migration steps
    file,             \* the state file on disk: <<>> when truncated, else target -> record
    backup,           \* the files written by std::fs::copy, one per run
    migration_input,  \* MigrationFile held in memory by run_migration
    next_task,        \* position of stream::iter(tasks)
    pc,               \* per target: position of its task
    step_no,          \* per target: index of the migration step about to run
    tree_dirty,       \* per target: the working tree has uncommitted changes
    result_map,       \* Arc<Mutex<BTreeMap>>: target -> MigrationStatus
    trace,            \* per target: the steps executed by this invocation, with outcomes
    error_log,        \* Vec<String> built after the stream finished
    errors_file,      \* migration.errors.txt: sequence of lines, <<>> when absent
    forge,            \* per target: pull requests of the repository
    pushes,           \* per target: number of git push executed
    gh_pull,          \* check-status: the pull request as fetch_pr_details returned it
    pull_state,       \* check-status: the PullStatus computed from gh_pull
    gh_repo,          \* forge client: the repository on the forge, with its pull requests
    sync,             \* forge client: the Publish step of one target, run after run
    url,              \* extract_github_info: the URL passed in
    github_info,      \* extract_github_info: the Result returned
    report,           \* check-status: the loop over the targets and the report printed
    logs              \* one workspace: stdout.log and stderr.log, and the command running

vars == <<phase, run, opts, definition_steps, file, backup, migration_input, next_task, pc, step_no,
          tree_dirty, result_map, trace, error_log, errors_file, forge, pushes,
          gh_pull, pull_state, gh_repo, sync, url, github_info, report, logs>>

report_vars == <<report, logs>>

client_vars == <<gh_repo, sync, url, github_info, report_vars>>

status_vars == <<gh_pull, pull_state, client_vars>>

\* ------------------------------------------------------------ data model
Targets == DOMAIN pc

Modes == {"none", "dry_run", "skip_push", "skip_pull_request"}

\* Option<CreatedPullRequest>
NoPr == [some |-> FALSE, pr_number |-> 0, url |-> <<0, 0>>]

CreatedPullRequest(t, n) == [some |-> TRUE, pr_number |-> n, url |-> <<t, n>>]

\* TargetDescription as created by run_init: no pull request, not skipped
TargetDescription(repo, skip) == [repo |-> repo, skip |-> skip, pull_request |-> NoPr]

\* skip_push is not looked at
is_push_enabled_dry_only(o) == o # "dry_run"

\* ExecutionOptions
is_push_enabled(o) == o # "dry_run" /\ o # "skip_push"

is_pr_enabled(o) == o # "dry_run" /\ o # "skip_pull_request"

\* MigrationStepResult constructors
success(name) == [name |-> name, terminal |-> FALSE, ok |-> TRUE, err |-> "none", pr |-> NoPr]

success_with_result(name, result) ==
    [name |-> name, terminal |-> FALSE, ok |-> TRUE, err |-> "none", pr |-> result]

\* a failure that lets the pipeline go on
failure_not_terminal(name, error) ==
    [name |-> name, terminal |-> FALSE, ok |-> FALSE, err |-> error, pr |-> NoPr]

failure(name, error) ==
    [name |-> name, terminal |-> TRUE, ok |-> FALSE, err |-> error, pr |-> NoPr]

abort(name) == [name |-> name, terminal |-> TRUE, ok |-> TRUE, err |-> "none", pr |-> NoPr]

\* the error does not say which step failed
MigrationStepErrored_unnamed(step_name) == "MigrationStepErrored{}"

\* MigrationError::MigrationStepErrored { step_name }; the steps of the
\* definition are named by their position
MigrationStepErrored(step_name) == "MigrationStepErrored{" \o ToString(step_name) \o "}"

\* MigrationStatus
EmptyResponse(r) == [variant |-> "EmptyResponse", result |-> r]

PullRequestStatus(r) == [variant |-> "PullRequest", result |-> r]

\* StepOutcome of the specification, read off a MigrationStepResult
Outcome(r) == IF ~r.ok THEN "Failure" ELSE IF r.terminal THEN "Abort" ELSE "Continue"

\* ------------------------------------------------------------ subprocesses
\* How `/bin/sh -c <command>` can end for Workspace::run_command_successfully:
\* exit code 0, another exit code, an I/O error (spawn or log write), or
\* termination by a signal (ExitStatus::code() is None)
CommandEnds == {"ok", "nonzero", "io", "signal"}

\* the exit status is not looked at
run_command_successfully_unchecked(ends) ==
    CASE ends = "ok" -> "Ok"
      [] ends = "nonzero" -> "Ok"
      [] ends = "io" -> "Err"
      [] OTHER -> "panic"

\* Workspace::run_command_successfully: Ok(()), Err(CommandError), or the panic
\* of `status.code().unwrap()` when there is no exit code
run_command_successfully(ends) ==
    CASE ends = "ok" -> "Ok"
      [] ends = "nonzero" -> "Err"
      [] ends = "io" -> "Err"
      [] OTHER -> "panic"

\* extract_github_info as used on a target's repo field: the model keeps only
\* whether the URL matches the pattern
extract_github_info_ok(repo) == repo = "valid"

\* no pull request has been fetched by check-status
NoPull == [merged |-> FALSE, mergeable |-> "UNKNOWN", state |-> "OPEN",
           commit |-> "no-nodes", rollup |-> "none", permalink |-> <<0, 0>>]

\* the forge client and extract_github_info have not been called
NoRepo == [created |-> 0, open |-> {}, default_branch |-> "main", pulls |-> <<>>]

NoSync == [at |-> "idle", pull_request |-> NoPr, existing_pr |-> NoPr, title |-> "title-1", body |-> "body-1",
           calls |-> <<>>, result |-> success("none")]

NoInfo == [ok |-> FALSE, owner |-> <<>>, repo |-> <<>>, err |-> "none"]

\* check-status has not been invoked
NoReport == [at |-> "idle", failed |-> "none", next |-> 1, checks_failed |-> <<>>, not_approved |-> <<>>,
             mergeable |-> <<>>, merged |-> <<>>, printed |-> <<>>]

\* no workspace has been created
NoLogs == [at |-> "none", stdout |-> <<>>, stderr |-> <<>>, commands |-> <<>>]

ReportIdle == report = NoReport /\ logs = NoLogs

ClientIdle ==
    /\ gh_repo = NoRepo /\ sync = NoSync /\ url = <<>> /\ github_info = NoInfo
    /\ ReportIdle

\* ------------------------------------------------------------------- Init
\* repo fields of the state file: one that extract_github_info accepts, one
\* that it rejects
Repos == {"valid", "invalid"}

InitTargets(n, skips, steps) ==
    /\ phase = "idle"
    /\ run = 1
    /\ opts \in Modes
    /\ definition_steps \in steps
    /\ file \in [1..n -> {TargetDescription(r, s) : r \in Repos, s \in skips}]
    /\ backup = <<>>
    /\ migration_input = file
    /\ next_task = 1
    /\ pc = [t \in 1..n |-> "queued"]
    /\ step_no = [t \in 1..n |-> 1]
    /\ tree_dirty = [t \in 1..n |-> FALSE]
    /\ result_map = <<>>
    /\ trace = [t \in 1..n |-> <<>>]
    /\ error_log = <<>>
    /\ errors_file = [run |-> 0, lines |-> <<>>]
    /\ forge = [t \in 1..n |-> [created |-> 0, open |-> {}]]
    /\ pushes = [t \in 1..n |-> 0]

Init ==
    /\ InitTargets(NumTargets, BOOLEAN, {WideSteps})
    /\ gh_pull = NoPull
    /\ pull_state = "none"
    /\ ClientIdle

\* --------------------------------------------------------- run_migration
\* the task list is built by iterating the BTreeMap: every target is prepared,
\* and the first repo that does not parse makes run_migration return the error
prepare_all_ok(input) == \A t \in DOMAIN input : extract_github_info_ok(input[t].repo)

\* the backup is created empty
StartRun_empty_backup ==
    /\ phase = "idle"
    /\ migration_input' = IF file # <<>> THEN file ELSE migration_input
    /\ backup' = IF file # <<>> THEN Append(backup, <<>>) ELSE backup
    /\ phase' = IF file # <<>> /\ prepare_all_ok(file) THEN "running" ELSE "failed"
    /\ next_task' = 1
    /\ pc' = [t \in Targets |-> "queued"]
    /\ step_no' = [t \in Targets |-> 1]
    /\ result_map' = <<>>
    /\ error_log' = <<>>
    /\ UNCHANGED <<run, opts, definition_steps, file, tree_dirty, trace, errors_file, forge, pushes, status_vars>>

\* lines 260-296: read and parse the state file (a truncated file does not
\* parse and run_migration returns the error), copy it to the backup, build the
\* tasks and the empty result map
StartRun ==
    /\ phase = "idle"
    /\ migration_input' = IF file # <<>> THEN file ELSE migration_input
    /\ backup' = IF file # <<>> THEN Append(backup, file) ELSE backup
    /\ phase' = IF file # <<>> /\ prepare_all_ok(file) THEN "running" ELSE "failed"
    /\ next_task' = 1
    /\ pc' = [t \in Targets |-> "queued"]
    /\ step_no' = [t \in Targets |-> 1]
    /\ result_map' = <<>>
    /\ error_log' = <<>>
    /\ UNCHANGED <<run, opts, definition_steps, file, tree_dirty, trace, errors_file, forge, pushes, status_vars>>

\* the skip flag is not handed to the task
prepare_migration_no_skip(target) ==
    [repo |-> target.repo, pull_request |-> target.pull_request, skip |-> FALSE]

\* prepare_migration lines 402-414: what MigrationTask::new is given from the
\* target's record
prepare_migration(target) ==
    [repo |-> target.repo, pull_request |-> target.pull_request, skip |-> target.skip]

\* the task built for target t at the start of the run
task(t) == prepare_migration(migration_input[t])

Running(t) == pc[t] \notin {"queued", "done", "dead", "absent"}

\* the map is replaced by the new entry
insert_replace(map, k, v) == [x \in {k} |-> v]

\* BTreeMap::insert
insert(map, k, v) == [x \in DOMAIN map \cup {k} |-> IF x = k THEN v ELSE map[x]]

\* the status is inserted but the task does not return
Record_no_return(t, status) ==
    /\ result_map' = insert(result_map, t, status)
    /\ pc' = pc

\* lines 316-318: the task's status is inserted under the task's name while the
\* mutex is held; the lock is taken and released in the same poll of the future
Record(t, status) ==
    /\ result_map' = insert(result_map, t, status)
    /\ pc' = [pc EXCEPT ![t] = "done"]

\* `ends` is how the subprocess of the step ended, "none" for a forge call
Logged(t, step, outcome, op, n, was_open, ends) ==
    trace' = [trace EXCEPT ![t] = Append(@,
        [step |-> step, outcome |-> outcome, op |-> op, n |-> n, was_open |-> was_open,
         ends |-> ends])]

Step(t, step, outcome, ends) == Logged(t, step, outcome, "none", 0, FALSE, ends)

\* a panic unwinds run_migration: the process ends and its memory is gone
Panic ==
    /\ phase' = "panicked"
    /\ pc' = [t \in Targets |-> "dead"]
    /\ result_map' = <<>>
    /\ next_task' = 1
    /\ step_no' = [t \in Targets |-> 1]

\* what no step of the pipeline changes
PipelineFrame ==
    UNCHANGED <<run, opts, definition_steps, file, backup, migration_input, error_log, errors_file, status_vars>>

\* an I/O error of the pre-flight command is a failure of the task
PreFlightCheckFailed_io_error(ends) ==
    IF ends = "io" THEN EmptyResponse(failure("pre-flight", "IoError"))
                   ELSE EmptyResponse(abort("pre-flight"))

\* run_migration_task lines 99-101 / PreFlightCheckStep::execute_step: every
\* error of the pre-flight command, whatever its kind, ends the task as
\* abort("pre-flight")
PreFlightCheckFailed(ends) == EmptyResponse(abort("pre-flight"))

\* ----------------------------------------------------- MigrationTask::run
\* Every action below is the code between two awaits of the task's future: it
\* starts when the awaited subprocess or forge call returns and runs to the
\* next await or to the insertion of the task's status.

\* for_each_concurrent(3, ..): the next task of the stream is started while
\* fewer than the limit are in flight. The first poll of the task runs to the
\* await of `git clone`: a target with skip set ends with abort("skip") before
\* run_migration_task is entered; otherwise run_migration_task lines 82-90
\* canonicalize the work dir, resolve the repo and create the workspace.
StartTask ==
    /\ phase = "running"
    /\ next_task \in Targets
    /\ Cardinality({t \in Targets : Running(t)}) < WorkerLimit
    /\ next_task' = next_task + 1
    /\ PipelineFrame
    /\ UNCHANGED <<phase, step_no, tree_dirty, trace, forge, pushes>>
    /\ LET t == next_task IN
       IF task(t).skip
           THEN Record(t, EmptyResponse(abort("skip")))
       ELSE \E io_ok \in BOOLEAN :
           IF ~io_ok
               THEN Record(t, EmptyResponse(failure("workspace", "IoError")))
           ELSE IF ~extract_github_info_ok(task(t).repo)
               THEN Record(t, EmptyResponse(failure("invalid-url", "InvalidGitRepo")))
           ELSE /\ pc' = [pc EXCEPT ![t] = "clone"]
                /\ UNCHANGED result_map

\* lines 92-97 and checkout_repo: git clone has returned; the branch is created
\* and checked out through git2; any error is UnableToCheckoutRepo. On success
\* the pre-flight command is started.
CheckoutRepo(t) ==
    /\ phase = "running" /\ pc[t] = "clone"
    /\ PipelineFrame
    /\ UNCHANGED <<forge, pushes>>
    /\ \E ends \in CommandEnds, git2_ok \in BOOLEAN :
        LET r == run_command_successfully(ends) IN
        IF r = "panic"
            THEN /\ Panic
                 /\ Step(t, "clone", "panic", ends)
                 /\ UNCHANGED tree_dirty
        ELSE IF r = "Err" \/ ~git2_ok
            THEN /\ Record(t, EmptyResponse(failure("clone", "UnableToCheckoutRepo")))
                 /\ Step(t, "clone", "Failure", ends)
                 /\ UNCHANGED <<phase, next_task, step_no, tree_dirty>>
        ELSE /\ pc' = [pc EXCEPT ![t] = "pre-flight"]
             /\ tree_dirty' = [tree_dirty EXCEPT ![t] = FALSE]
             /\ Step(t, "clone", "Continue", ends)
             /\ UNCHANGED <<phase, next_task, step_no, result_map>>

\* the dry_run flag is not tested before prepair_pr
AfterSteps_no_dry_run(t, dirty) ==
    IF dirty
        THEN Record(t, EmptyResponse(failure("migration-step:untracked_files",
                                             "WorkingDirNotClean")))
    ELSE IF is_push_enabled(opts)
        THEN /\ pc' = [pc EXCEPT ![t] = "push"]
             /\ UNCHANGED result_map
    ELSE IF task(t).pull_request.some \/ is_pr_enabled(opts)
        THEN /\ pc' = [pc EXCEPT ![t] = "publish"]
             /\ UNCHANGED result_map
    ELSE Record(t, PullRequestStatus(failure("pull-request", "UnableToCreatePullRequest")))

\* run_migration_script lines 186-201, run_migration_task lines 103-115 and
\* prepair_pr lines 125-156 up to the next await, once the last command of the
\* step loop has succeeded: the status of the working tree is read; a clean
\* tree goes on to prepair_pr unless dry_run is set; prepair_pr starts the push
\* when push is enabled, else the forge call for a remembered pull request or,
\* when pull requests are enabled, for a new one; otherwise it bails, and
\* every Err of prepair_pr becomes UnableToCreatePullRequest at line 110.
AfterSteps(t, dirty) ==
    IF dirty
        THEN Record(t, EmptyResponse(failure("migration-step:untracked_files",
                                             "WorkingDirNotClean")))
    ELSE IF opts = "dry_run"
        THEN Record(t, EmptyResponse(abort("dry-run")))
    ELSE IF is_push_enabled(opts)
        THEN /\ pc' = [pc EXCEPT ![t] = "push"]
             /\ UNCHANGED result_map
    ELSE IF task(t).pull_request.some \/ is_pr_enabled(opts)
        THEN /\ pc' = [pc EXCEPT ![t] = "publish"]
             /\ UNCHANGED result_map
    ELSE Record(t, PullRequestStatus(failure("pull-request", "UnableToCreatePullRequest")))

\* lines 99-101 and run_preflight_check: the pre-flight command has returned;
\* every error of the command ends the task with PreFlightCheckFailed
PreFlight(t) ==
    /\ phase = "running" /\ pc[t] = "pre-flight"
    /\ PipelineFrame
    /\ UNCHANGED <<forge, pushes, tree_dirty>>
    /\ \E ends \in CommandEnds :
        LET r == run_command_successfully(ends) IN
        IF r = "panic"
            THEN /\ Panic
                 /\ Step(t, "pre-flight", "panic", ends)
        ELSE IF r = "Err"
            THEN /\ Record(t, PreFlightCheckFailed(ends))
                 /\ Step(t, "pre-flight", Outcome(PreFlightCheckFailed(ends).result), ends)
                 /\ UNCHANGED <<phase, next_task, step_no>>
        ELSE /\ Step(t, "pre-flight", "Continue", ends)
             /\ step_no' = [step_no EXCEPT ![t] = 1]
             /\ UNCHANGED <<phase, next_task>>
             /\ IF definition_steps = 0
                    THEN AfterSteps(t, tree_dirty[t])
                    ELSE /\ pc' = [pc EXCEPT ![t] = "steps"]
                         /\ UNCHANGED result_map

\* run_migration_script lines 170-184: the command of step k has returned; a
\* command that does not succeed ends the task with MigrationFailed{step}.
\* A script that exits 0 leaves the tree clean or dirty; after the last step the
\* task goes on as AfterSteps says.
MigrationScript(t) ==
    /\ phase = "running" /\ pc[t] = "steps"
    /\ PipelineFrame
    /\ UNCHANGED <<forge, pushes>>
    /\ \E ends \in CommandEnds, dirty \in BOOLEAN :
        LET r == run_command_successfully(ends)
            k == step_no[t] IN
        IF r = "panic"
            THEN /\ Panic
                 /\ Logged(t, "migration-step", "panic", "none", k, FALSE, ends)
                 /\ UNCHANGED tree_dirty
        ELSE IF r = "Err"
            THEN /\ Record(t, EmptyResponse(failure("migration-step:exec", MigrationStepErrored(k))))
                 /\ Logged(t, "migration-step", "Failure", "none", k, FALSE, ends)
                 /\ UNCHANGED <<phase, next_task, step_no, tree_dirty>>
        ELSE /\ tree_dirty' = [tree_dirty EXCEPT ![t] = dirty]
             /\ Logged(t, "migration-step", "Continue", "none", k, FALSE, ends)
             /\ UNCHANGED <<phase, next_task>>
             /\ IF k = definition_steps
                    THEN /\ AfterSteps(t, dirty)
                         /\ UNCHANGED step_no
                    ELSE /\ step_no' = [step_no EXCEPT ![t] = k + 1]
                         /\ UNCHANGED <<pc, result_map>>

\* prepair_pr lines 125-156: `git push --force-with-lease` has returned; its
\* error is returned by `?`; on success the forge call is started, or the
\* function bails when there is no remembered pull request and pull requests
\* are disabled
Push(t) ==
    /\ phase = "running" /\ pc[t] = "push"
    /\ PipelineFrame
    /\ UNCHANGED <<forge, tree_dirty>>
    /\ \E ends \in CommandEnds :
        LET r == run_command_successfully(ends) IN
        IF r = "panic"
            THEN /\ Panic
                 /\ Step(t, "push", "panic", ends)
                 /\ UNCHANGED pushes
        ELSE IF r = "Err"
            THEN /\ Record(t, PullRequestStatus(failure("push", "UnableToCreatePullRequest")))
                 /\ Step(t, "push", "Failure", ends)
                 /\ UNCHANGED <<phase, next_task, step_no, pushes>>
        ELSE /\ pushes' = [pushes EXCEPT ![t] = @ + 1]
             /\ Step(t, "push", "Continue", ends)
             /\ UNCHANGED <<phase, next_task, step_no>>
             /\ IF task(t).pull_request.some \/ is_pr_enabled(opts)
                    THEN /\ pc' = [pc EXCEPT ![t] = "publish"]
                         /\ UNCHANGED result_map
                    ELSE Record(t, PullRequestStatus(failure("pull-request",
                                       "UnableToCreatePullRequest")))

\* checkout_repo / CloneRepoStep::clone_repo: Workspace::set_working_dir("repo")
\* is called as soon as `git clone` has succeeded, before the repository is
\* opened and the branch is created and checked out
working_dir(t) ==
    IF \E i \in DOMAIN trace[t] : trace[t][i].step = "clone" /\ trace[t][i].ends = "ok"
        THEN "root/repo"
        ELSE "root"

\* the pull request exists, in whatever state
is_pr_open_exists(f, n) == n \in 1..f.created

\* GithubApiClient::is_pr_open
is_pr_open(f, n) == n \in f.open

\* update_pr is never set
sync_pull_request_create(f, pr) == "create"

\* GithubApiClient::sync_pull_request lines 163-173: the operation chosen for
\* the optional number of a remembered pull request
sync_pull_request(f, pr) ==
    LET update_pr == IF pr.some THEN is_pr_open(f, pr.pr_number) ELSE FALSE IN
    IF update_pr THEN "update" ELSE "create"

\* GithubApiClient::create_pull_request on the forge: the new pull request gets
\* the next number of the repository and is open
create_pull_request(f) == [f EXCEPT !.created = @ + 1, !.open = @ \cup {f.created + 1}]

\* the call of github::update_pull_request at prepair_pr line 132, for a
\* remembered pull request: the function is not part of the source tree; it is
\* the reconciliation of the specification (query the pull request; update it
\* when it is still open, otherwise create a fresh one), which the forge client
\* has as sync_pull_request
reconcile(f, pr) == sync_pull_request(f, pr)

\* the forge calls made for one operation and the status they end the task with
ForgeCall(t, op, n, was_open) ==
    \E forge_ok \in BOOLEAN :
        LET number == IF op = "update" THEN n ELSE forge[t].created + 1 IN
        /\ forge' = IF forge_ok /\ op = "create"
                        THEN [forge EXCEPT ![t] = create_pull_request(@)]
                        ELSE forge
        /\ Logged(t, "pull-request", IF forge_ok THEN "Continue" ELSE "Failure",
                  op, IF forge_ok THEN number ELSE 0, was_open, "none")
        /\ IF forge_ok
               THEN Record(t, PullRequestStatus(success_with_result("pull-request",
                                  CreatedPullRequest(t, number))))
               ELSE Record(t, PullRequestStatus(failure("pull-request",
                                  "UnableToCreatePullRequest")))

\* prepair_pr lines 131-161: the forge has answered. A remembered pull request
\* is reconciled; without one a pull request is created.
Publish(t) ==
    /\ phase = "running" /\ pc[t] = "publish"
    /\ PipelineFrame
    /\ UNCHANGED <<phase, next_task, step_no, tree_dirty, pushes>>
    /\ LET pr == task(t).pull_request IN
       IF pr.some
           THEN \E lookup_ok \in BOOLEAN :
               IF lookup_ok
                   THEN ForgeCall(t, reconcile(forge[t], pr), pr.pr_number,
                                  pr.pr_number \in forge[t].open)
                   ELSE /\ Record(t, PullRequestStatus(failure("pull-request",
                                         "UnableToCreatePullRequest")))
                        /\ Logged(t, "pull-request", "Failure", "none", pr.pr_number,
                                  pr.pr_number \in forge[t].open, "none")
                        /\ UNCHANGED forge
           ELSE ForgeCall(t, "create", 0, FALSE)

\* ------------------------------------------------ run_migration, the end
RECURSIVE error_lines(_, _)
\* lines 323-361, the error log: the result map is read in key order and every
\* status whose result is Err adds one line
error_lines(map, keys) ==
    IF keys = {} THEN <<>>
    ELSE LET k == CHOOSE x \in keys : \A y \in keys : x <= y
             rest == error_lines(map, keys \ {k}) IN
         IF map[k].result.ok THEN rest
         ELSE <<[target |-> k, variant |-> map[k].variant, error |-> map[k].result.err]>> \o rest

\* the lines are in the reverse of the key order
error_log_of_reversed(map) ==
    LET lines == error_lines(map, DOMAIN map) IN
    [i \in DOMAIN lines |-> lines[Len(lines) + 1 - i]]

\* lines 322-361: result_map.iter() visits the BTreeMap in key order
error_log_of(map) == error_lines(map, DOMAIN map)

\* the pull request field of every PullRequest status is stored, Ok or Err
merge_results_any(input, map) ==
    [t \in DOMAIN input |->
        IF t \in DOMAIN map /\ map[t].variant = "PullRequest"
            THEN [input[t] EXCEPT !.pull_request = map[t].result.pr]
            ELSE input[t]]

\* lines 337-343: the pull request of a PullRequest status whose result is Ok is
\* stored in the target of that name
merge_results(input, map) ==
    [t \in DOMAIN input |->
        IF t \in DOMAIN map /\ map[t].variant = "PullRequest" /\ map[t].result.ok
            THEN [input[t] EXCEPT !.pull_request = map[t].result.pr]
            ELSE input[t]]

\* try_for_each_concurrent instead of for_each_concurrent: the stream ends with
\* the first task whose result is an error
stream_done_on_error ==
    \/ \E t \in DOMAIN result_map : ~result_map[t].result.ok
    \/ next_task \notin Targets /\ \A t \in Targets : pc[t] = "done"

\* lines 304-321: for_each_concurrent(..).await returns when the stream is
\* exhausted and every task has finished
stream_done == next_task \notin Targets /\ \A t \in Targets : pc[t] = "done"

\* lines 321-364: the stream has finished; the error log and the updated input
\* are built, and File::create truncates the state file
FinishRun ==
    /\ phase = "running"
    /\ stream_done
    /\ error_log' = error_log_of(result_map)
    /\ migration_input' = merge_results(migration_input, result_map)
    /\ file' = <<>>
    /\ phase' = "created"
    /\ UNCHANGED <<run, opts, definition_steps, backup, next_task, pc, step_no, tree_dirty, result_map, trace,
                   errors_file, forge, pushes, status_vars>>

\* line 365: write_all of the serialized input into the truncated file; when
\* the write fails the file stays incomplete and run_migration returns the error
WriteState ==
    /\ phase = "created"
    /\ \E write_ok \in BOOLEAN :
        IF write_ok
            THEN file' = migration_input /\ phase' = "written"
            ELSE file' = file /\ phase' = "unwritten"
    /\ UNCHANGED <<run, opts, definition_steps, backup, migration_input, next_task, pc, step_no,
                   tree_dirty, result_map, trace, error_log, errors_file, forge, pushes,
                   status_vars>>

\* the file is created whether the error log is empty or not
WriteErrors_always ==
    /\ phase = "written"
    /\ errors_file' = [run |-> run, lines |-> error_log]
    /\ phase' = "done"
    /\ UNCHANGED <<run, opts, definition_steps, file, backup, migration_input, next_task, pc, step_no,
                   tree_dirty, result_map, trace, error_log, forge, pushes, status_vars>>

\* lines 367-373: migration.errors.txt is written when the error log is not empty
WriteErrors ==
    /\ phase = "written"
    /\ errors_file' = IF error_log # <<>> THEN [run |-> run, lines |-> error_log]
                                          ELSE errors_file
    /\ phase' = "done"
    /\ UNCHANGED <<run, opts, definition_steps, file, backup, migration_input, next_task, pc, step_no,
                   tree_dirty, result_map, trace, error_log, forge, pushes, status_vars>>

\* ------------------------------------------------------------ environment
\* the operator invokes clu run-migration again on the same state file
Rerun ==
    /\ phase \in {"done", "failed", "panicked", "unwritten"}
    /\ run < MaxRuns
    /\ run' = run + 1
    /\ opts' \in Modes
    /\ phase' = "idle"
    /\ trace' = [t \in Targets |-> <<>>]
    /\ UNCHANGED <<definition_steps, file, backup, migration_input, next_task, pc, step_no,
                   tree_dirty, result_map, error_log, errors_file, forge, pushes, status_vars>>

\* a pull request is closed or merged on the forge
ClosePullRequest(t) ==
    /\ \E n \in forge[t].open : forge' = [forge EXCEPT ![t].open = @ \ {n}]
    /\ UNCHANGED <<phase, run, opts, definition_steps, file, backup, migration_input, next_task, pc, step_no,
                   tree_dirty, result_map, trace, error_log, errors_file, pushes, status_vars>>

Pipeline(t) ==
    \/ CheckoutRepo(t)
    \/ PreFlight(t)
    \/ MigrationScript(t)
    \/ Push(t)
    \/ Publish(t)

Next ==
    \/ StartRun
    \/ StartTask
    \/ \E t \in Targets : Pipeline(t)
    \/ FinishRun
    \/ WriteState
    \/ WriteErrors

Spec == Init /\ [][Next]_vars

\* the executor polls every future that can make progress: a task whose
\* subprocess or forge call has returned is resumed, a queued task is started
\* when fewer than the limit are running, and run_migration goes on when the
\* stream has ended
Fairness ==
    /\ WF_vars(StartRun)
    /\ WF_vars(StartTask)
    /\ \A t \in 1..NumTargets : WF_vars(Pipeline(t))
    /\ WF_vars(FinishRun)
    /\ WF_vars(WriteState)
    /\ WF_vars(WriteErrors)

SpecFair == Spec /\ Fairness

\* two targets, campaign runs repeated, pull requests closed in between
InitRerun ==
    /\ InitTargets(PairTargets, BOOLEAN, 0..NumSteps)
    /\ gh_pull = NoPull
    /\ pull_state = "none"
    /\ ClientIdle

NextRerun ==
    \/ Next
    \/ Rerun
    \/ \E t \in Targets : ClosePullRequest(t)

SpecRerun == InitRerun /\ [][NextRerun]_vars

\* --------------------------------------------------------------- follow-up
\* followup.rs line 45 and clu.rs line 386: the directory a task is given is the
\* work directory root, whatever the name of the target
target_dir(name) == "work_directory_root"

\* the directory whose Workspace a task holds: a migration task from
\* Workspace::new to its return, a follow-up task from new_clean_workspace to
\* the return of the follow-up step
workspace_of(t) ==
    IF phase = "running" /\ Running(t) THEN target_dir(t)
    ELSE IF phase = "followup" /\ pc[t] = "follow-up" THEN target_dir(t)
    ELSE "none"

\* what run_followup and its tasks leave alone
FollowupFrame ==
    UNCHANGED <<run, opts, definition_steps, file, backup, migration_input, next_task, step_no,
                tree_dirty, result_map, error_log, errors_file, forge, pushes, status_vars>>

\* run_followup lines 38-60: the state file is read and one WorkTask is queued
\* for every target that has a pull request
StartFollowup ==
    /\ phase = "idle"
    /\ phase' = "followup"
    /\ pc' = [t \in Targets |-> IF file[t].pull_request.some THEN "queued" ELSE "absent"]
    /\ UNCHANGED trace
    /\ FollowupFrame

\* lines 62-64 and run_follow_up lines 89-102: the next task of the queue is
\* started while fewer than the limit are in flight and runs to the await of
\* fetch_pull_state; a repo that does not parse ends it
FollowupStart(t) ==
    /\ phase = "followup"
    /\ pc[t] = "queued"
    /\ \A u \in Targets : u < t => pc[u] # "queued"
    /\ Cardinality({u \in Targets : Running(u)}) < WorkerLimit
    /\ IF extract_github_info_ok(file[t].repo)
           THEN pc' = [pc EXCEPT ![t] = "fetch"] /\ UNCHANGED trace
           ELSE /\ pc' = [pc EXCEPT ![t] = "done"]
                /\ Step(t, "invalid-url", "Failure", "none")
    /\ UNCHANGED phase
    /\ FollowupFrame

\* run_follow_up lines 99-135: the pull state has arrived; an error ends the
\* task; the abort("merged") of line 118 is built and dropped, so every status
\* goes on; the workspace directory is removed and created again and the
\* follow-up script is started
FollowupFetched(t) ==
    /\ phase = "followup"
    /\ pc[t] = "fetch"
    /\ \E status \in {"Err", "Merged", "Mergeable", "ChecksFailed"}, io_ok \in BOOLEAN :
        IF status = "Err"
            THEN /\ pc' = [pc EXCEPT ![t] = "done"]
                 /\ Step(t, "no-pull-request", "Failure", "none")
        ELSE IF ~io_ok
            THEN /\ pc' = [pc EXCEPT ![t] = "done"]
                 /\ Step(t, "workspace", "Failure", "none")
        ELSE /\ pc' = [pc EXCEPT ![t] = "follow-up"]
             /\ Step(t, "pull-state", status, "none")
    /\ UNCHANGED phase
    /\ FollowupFrame

\* run_follow_up lines 133-135: the follow-up step has returned its result
FollowupScript(t) ==
    /\ phase = "followup"
    /\ pc[t] = "follow-up"
    /\ \E ok \in BOOLEAN :
        Step(t, "follow-up", IF ok THEN "Continue" ELSE "Failure", "none")
    /\ pc' = [pc EXCEPT ![t] = "done"]
    /\ UNCHANGED phase
    /\ FollowupFrame

\* lines 73-75: the stream has finished
FinishFollowup ==
    /\ phase = "followup"
    /\ \A t \in Targets : pc[t] \in {"done", "absent"}
    /\ phase' = "done"
    /\ UNCHANGED <<pc, trace>>
    /\ FollowupFrame

\* a state file after campaign runs: some targets have a pull request
InitFollowup ==
    /\ InitTargets(FollowTargets, {FALSE}, {WideSteps})
    /\ opts = "none"
    /\ \A t \in Targets : file[t].repo = "valid"
    /\ gh_pull = NoPull
    /\ pull_state = "none"
    /\ ClientIdle

\* the pull request a campaign run has recorded for t
RecordPullRequest(t) ==
    /\ phase = "idle"
    /\ ~file[t].pull_request.some
    /\ file' = [file EXCEPT ![t].pull_request = CreatedPullRequest(t, 1)]
    /\ forge' = [forge EXCEPT ![t] = create_pull_request(@)]
    /\ migration_input' = file'
    /\ UNCHANGED <<phase, run, opts, definition_steps, backup, next_task, pc, step_no, tree_dirty,
                   result_map, trace, error_log, errors_file, pushes, status_vars>>

NextFollowup ==
    \/ \E t \in Targets : RecordPullRequest(t)
    \/ StartFollowup
    \/ \E t \in Targets : FollowupStart(t)
    \/ \E t \in Targets : FollowupFetched(t)
    \/ \E t \in Targets : FollowupScript(t)
    \/ FinishFollowup

SpecFollowup == InitFollowup /\ [][NextFollowup]_vars

\* ------------------------------------------------------------ forge client
\* The Publish step of one target, campaign run after campaign run, against a
\* repository whose default branch, pull requests and definition change in
\* between.
Branches == {"main", "develop"}

Titles == {"title-1", "title-2"}

Bodies == {"body-1", "body-2"}

\* impl From<&MigrationTask> for UpdateGithubStep: branch, title and body of
\* the definition
PullRequestDescription(title, body) ==
    [branch |-> "branch_name", title |-> title, body |-> body]

\* fetch_repo_details lines 547-554: id, target branch and prefix are those of
\* the default branch ref the forge reports
fetch_repo_details(f) ==
    [id |-> "repository", target_branch |-> <<"refs/heads/", f.default_branch>>,
     prefix |-> "refs/heads/"]

\* the base branch is the head branch
create_pull_request_variables_same_ref(repo_details, d) ==
    [repository_id |-> repo_details.id,
     base_ref |-> <<repo_details.prefix, d.branch>>,
     head_ref |-> <<repo_details.prefix, d.branch>>,
     body |-> d.body, title |-> d.title]

\* GithubApiClient::create_pull_request lines 248-254: the variables of the
\* mutation
create_pull_request_variables(repo_details, d) ==
    [repository_id |-> repo_details.id,
     base_ref |-> repo_details.target_branch,
     head_ref |-> <<repo_details.prefix, d.branch>>,
     body |-> d.body, title |-> d.title]

\* the update also sends the default branch as base
update_pull_request_variables_with_base(f, pr_number, d) ==
    [pull_request_id |-> pr_number, body |-> d.body, title |-> d.title,
     base_ref |-> fetch_repo_details(f).target_branch]

\* GithubApiClient::update_pull_request lines 195-209: the id comes from the
\* pull request fetched under its number; the variables of the mutation
update_pull_request_variables(f, pr_number, d) ==
    [pull_request_id |-> pr_number, body |-> d.body, title |-> d.title]

\* a request of the client and its variables
Request(kind, variables) == [kind |-> kind, variables |-> variables, ok |-> TRUE]

\* GithubApiClient::sync_pull_request with the calls below it: the requests the
\* client sends, in order, when none of them fails
requests(f, d, pr) ==
    LET lookup == IF pr.some
                      THEN <<Request("fetch_pr_details", [number |-> pr.pr_number])>>
                      ELSE <<>> IN
    IF sync_pull_request(f, pr) = "update"
        THEN lookup \o <<Request("fetch_pr_details", [number |-> pr.pr_number]),
                         Request("UpdatePullRequestMutation",
                                 update_pull_request_variables(f, pr.pr_number, d))>>
        ELSE lookup \o <<Request("GetRepositoryQuery", [repo |-> "repo"]),
                         Request("CreatePullRequestMigration",
                                 create_pull_request_variables(fetch_repo_details(f), d))>>

\* the forge executes a mutation: a created pull request has the fields of the
\* request; an updated one takes over the fields the request carries
mutate(f, r) ==
    IF r.kind = "CreatePullRequestMigration"
        THEN [create_pull_request(f) EXCEPT !.pulls =
                 Append(@, [base_ref |-> r.variables.base_ref,
                            head_ref |-> r.variables.head_ref,
                            title |-> r.variables.title, body |-> r.variables.body])]
    ELSE IF r.kind = "UpdatePullRequestMutation"
        THEN [f EXCEPT !.pulls[r.variables.pull_request_id] =
                 [k \in DOMAIN @ |-> IF k \in DOMAIN r.variables THEN r.variables[k]
                                                                  ELSE @[k]]]
    ELSE f

\* an error of sync_pull_request stops the task without a failure
execute_step_abort_on_error(ok, number) ==
    IF ok THEN success_with_result("pull-request", CreatedPullRequest(1, number))
          ELSE abort("pull-request")

\* UpdateGithubStep::execute_step lines 26-50: the result of sync_pull_request
\* becomes the result of the step
execute_step(ok, number) ==
    IF ok THEN success_with_result("pull-request", CreatedPullRequest(1, number))
          ELSE failure("pull-request", "UnableToCreatePullRequest")

\* UpdateGithubStep::execute_step: the step is built from the task and calls
\* sync_pull_request; the first request that fails ends the call with its
\* error
ExecuteSync ==
    /\ sync.at = "idle"
    /\ LET d == PullRequestDescription(sync.title, sync.body)
           pr == sync.pull_request
           plan == requests(gh_repo, d, pr)
           number == IF sync_pull_request(gh_repo, pr) = "update" THEN pr.pr_number
                                                                  ELSE gh_repo.created + 1 IN
       /\ sync_pull_request(gh_repo, pr) = "create" => gh_repo.created < MaxPulls
       /\ \E failed \in 0..Len(plan) :
           IF failed = 0
               THEN /\ gh_repo' = mutate(gh_repo, plan[Len(plan)])
                    /\ sync' = [sync EXCEPT !.at = "returned", !.existing_pr = pr,
                                   !.calls = plan,
                                   !.result = execute_step(TRUE, number)]
               ELSE /\ gh_repo' = gh_repo
                    /\ sync' = [sync EXCEPT !.at = "returned", !.existing_pr = pr,
                                   !.calls = [SubSeq(plan, 1, failed)
                                                  EXCEPT ![failed].ok = FALSE],
                                   !.result = execute_step(FALSE, 0)]
    /\ UNCHANGED <<phase, run, opts, definition_steps, file, backup, migration_input,
                   next_task, pc, step_no, tree_dirty, result_map, trace, error_log,
                   errors_file, forge, pushes, gh_pull, pull_state, url, github_info,
                   report_vars>>

\* run_migration lines 337-343: the status of the task is merged into the
\* campaign state, which the next run starts from
MergeSync ==
    /\ sync.at = "returned"
    /\ sync' = [sync EXCEPT !.at = "idle",
                   !.pull_request = merge_results(<<[pull_request |-> @]>>,
                                        <<PullRequestStatus(sync.result)>>)[1].pull_request]
    /\ UNCHANGED <<phase, run, opts, definition_steps, file, backup, migration_input,
                   next_task, pc, step_no, tree_dirty, result_map, trace, error_log,
                   errors_file, forge, pushes, gh_pull, pull_state, gh_repo, url,
                   github_info,
                   report_vars>>

\* between runs: the default branch of the repository is changed
ChangeDefaultBranch ==
    /\ sync.at = "idle"
    /\ \E b \in Branches \ {gh_repo.default_branch} :
           gh_repo' = [gh_repo EXCEPT !.default_branch = b]
    /\ UNCHANGED <<phase, run, opts, definition_steps, file, backup, migration_input,
                   next_task, pc, step_no, tree_dirty, result_map, trace, error_log,
                   errors_file, forge, pushes, gh_pull, pull_state, sync, url,
                   github_info,
                   report_vars>>

\* between runs: a pull request is closed or merged
CloseSyncedPull ==
    /\ sync.at = "idle"
    /\ \E n \in gh_repo.open : gh_repo' = [gh_repo EXCEPT !.open = @ \ {n}]
    /\ UNCHANGED <<phase, run, opts, definition_steps, file, backup, migration_input,
                   next_task, pc, step_no, tree_dirty, result_map, trace, error_log,
                   errors_file, forge, pushes, gh_pull, pull_state, sync, url,
                   github_info,
                   report_vars>>

\* between runs: title and description of the definition are edited
EditDefinition ==
    /\ sync.at = "idle"
    /\ \E title \in Titles, body \in Bodies :
           /\ <<title, body>> # <<sync.title, sync.body>>
           /\ sync' = [sync EXCEPT !.title = title, !.body = body]
    /\ UNCHANGED <<phase, run, opts, definition_steps, file, backup, migration_input,
                   next_task, pc, step_no, tree_dirty, result_map, trace, error_log,
                   errors_file, forge, pushes, gh_pull, pull_state, gh_repo, url,
                   github_info,
                   report_vars>>

\* one target of a campaign that has not run
CampaignIdle ==
    /\ InitTargets(1, {FALSE}, {WideSteps})
    /\ opts = "none"
    /\ file[1].repo = "valid"
    /\ gh_pull = NoPull
    /\ pull_state = "none"

InitSync ==
    /\ CampaignIdle
    /\ \E b \in Branches : gh_repo = [NoRepo EXCEPT !.default_branch = b]
    /\ sync = NoSync
    /\ url = <<>>
    /\ github_info = NoInfo
    /\ ReportIdle

NextSync ==
    \/ ExecuteSync
    \/ MergeSync
    \/ ChangeDefaultBranch
    \/ CloseSyncedPull
    \/ EditDefinition

SpecSync == InitSync /\ [][NextSync]_vars

\* ------------------------------------------------------ extract_github_info
\* A URL is a sequence of pieces of text: the parts the pattern spells out, the
\* single characters "." and "-", and for owner and repository the characters
\* "a", "b" and "/" and the suffix ".git".
Heads == {<<"https://github", ".", "com/">>, <<"https://github", "-", "com/">>,
          <<"git@github", ".", "com:">>, <<"git@github", "-", "com:">>,
          <<"https://gitlab", ".", "com/">>, <<>>}

TailPieces == {"a", "b", "/", ".git"}

Urls == {h \o tl : h \in Heads, tl \in UNION {[1..n -> TailPieces] : n \in 0..MaxTail}}

\* pieces that are one character long, none of them a line break
Characters == {".", "-", "a", "b", "/"}

\* line 402, ^(https://github.com/|git@github.com:) : the text of the pattern
\* is matched as written, and its dot, which is not escaped, matches any
\* character
prefix_matches(u) ==
    /\ Len(u) >= 3
    /\ u[2] \in Characters
    /\ \/ u[1] = "https://github" /\ u[3] = "com/"
       \/ u[1] = "git@github" /\ u[3] = "com:"

\* line 402, (?P<owner>.+?)/ : where the owner can end, so that a slash and at
\* least one more character follow
owner_ends(u) == {i \in 4..(Len(u) - 2) : u[i + 1] = "/"}

\* line 402, (?P<repo>.+?)(\.git)?$ : the shortest text that is not empty and
\* is followed by the end or by ".git" and the end
repo_of(r) == IF Len(r) >= 2 /\ r[Len(r)] = ".git" THEN SubSeq(r, 1, Len(r) - 1) ELSE r

\* extract_github_info lines 400-416: the owner is the shortest match
extract_github_info(u) ==
    IF prefix_matches(u) /\ owner_ends(u) # {}
        THEN LET i == CHOOSE k \in owner_ends(u) : \A j \in owner_ends(u) : k <= j IN
             [ok |-> TRUE, owner |-> SubSeq(u, 4, i),
              repo |-> repo_of(SubSeq(u, i + 2, Len(u))), err |-> "none"]
        ELSE [ok |-> FALSE, owner |-> <<>>, repo |-> <<>>, err |-> "UnableToDetermineRepo"]

\* extract_github_info is called on the URL
ExtractGithubInfo ==
    /\ github_info = NoInfo
    /\ github_info' = extract_github_info(url)
    /\ UNCHANGED <<phase, run, opts, definition_steps, file, backup, migration_input,
                   next_task, pc, step_no, tree_dirty, result_map, trace, error_log,
                   errors_file, forge, pushes, gh_pull, pull_state, gh_repo, sync, url,
                   report_vars>>

InitUrl ==
    /\ CampaignIdle
    /\ gh_repo = NoRepo
    /\ sync = NoSync
    /\ url \in Urls
    /\ github_info = NoInfo
    /\ ReportIdle

NextUrl == ExtractGithubInfo

SpecUrl == InitUrl /\ [][NextUrl]_vars

\* ------------------------------------------------------------ check-status
\* the pull request of GetPullRequestStatusQuery as far as fetch_pull_state
\* reads it: commits.nodes is absent, empty, holds a null node or a commit;
\* rollup is the commit's statusCheckRollup state, "none" when there is none
GhPulls ==
    [merged : BOOLEAN,
     mergeable : {"MERGEABLE", "CONFLICTING", "UNKNOWN"},
     state : {"OPEN", "CLOSED", "MERGED"},
     commit : {"no-nodes", "empty", "null-node", "commit"},
     rollup : {"none", "SUCCESS", "PENDING", "FAILURE", "ERROR", "EXPECTED"},
     permalink : {<<1, 1>>, <<1, 2>>}]

\* the mergeable flag is asked before the merged flag
fetch_pull_state_flag_first(p) ==
    IF p.mergeable = "MERGEABLE" THEN "Mergeable"
    ELSE IF p.merged THEN "Merged"
    ELSE IF p.commit # "commit" THEN "ChecksFailed"
    ELSE CASE p.rollup = "none" -> "ChecksFailed"
           [] p.rollup = "SUCCESS" \/ p.rollup = "PENDING" -> "Mergeable"
           [] OTHER -> "ChecksFailed"

\* GithubApiClient::fetch_pull_state lines 113-154
fetch_pull_state(p) ==
    IF p.merged THEN "Merged"
    ELSE IF p.mergeable = "MERGEABLE" THEN "Mergeable"
    ELSE IF p.commit # "commit" THEN "ChecksFailed"
    ELSE CASE p.rollup = "none" -> "ChecksFailed"
           [] p.rollup = "SUCCESS" \/ p.rollup = "PENDING" -> "Mergeable"
           [] OTHER -> "ChecksFailed"

\* check_status lines 175-177: the state of one pull request is fetched
FetchPullState ==
    /\ pull_state = "none"
    /\ pull_state' = fetch_pull_state(gh_pull)
    /\ UNCHANGED <<phase, run, opts, definition_steps, file, backup, migration_input, next_task, pc, step_no,
                   tree_dirty, result_map, trace, error_log, errors_file, forge, pushes,
                   gh_pull, client_vars>>

InitStatus ==
    /\ InitTargets(1, {FALSE}, {WideSteps})
    /\ opts = "none"
    /\ gh_pull \in GhPulls
    /\ pull_state = "none"
    /\ ClientIdle

NextStatus == FetchPullState

SpecStatus == InitStatus /\ [][NextStatus]_vars

\* --------------------------------------------------- check-status, the report
\* fetch_pr_details: pull request n of the repository of target t, as the forge
\* reports it
fetch_pr_details(t, n, g) == [g EXCEPT !.permalink = <<t, n>>]

\* GithubApiClient::fetch_pull_state lines 113-154: the PullState returned
PullState(p) == [status |-> fetch_pull_state(p), permalink |-> p.permalink]

\* a pending rollup is not counted as passing
fetch_pull_state_free_strict(p) ==
    IF p.merged THEN [permalink |-> p.permalink, status |-> "Merged"]
    ELSE IF p.mergeable = "MERGEABLE" THEN [permalink |-> p.permalink, status |-> "Mergeable"]
    ELSE IF p.commit # "commit" THEN [permalink |-> p.permalink, status |-> "ChecksFailed"]
    ELSE IF p.rollup = "SUCCESS" THEN [permalink |-> p.permalink, status |-> "Mergeable"]
    ELSE [permalink |-> p.permalink, status |-> "ChecksFailed"]

\* the free function fetch_pull_state lines 333-374
fetch_pull_state_free(p) ==
    IF p.merged THEN [permalink |-> p.permalink, status |-> "Merged"]
    ELSE IF p.mergeable = "MERGEABLE" THEN [permalink |-> p.permalink, status |-> "Mergeable"]
    ELSE IF p.commit # "commit" THEN [permalink |-> p.permalink, status |-> "ChecksFailed"]
    ELSE IF p.rollup = "none" THEN [permalink |-> p.permalink, status |-> "ChecksFailed"]
    ELSE IF p.rollup \in {"SUCCESS", "PENDING"}
        THEN [permalink |-> p.permalink, status |-> "Mergeable"]
    ELSE [permalink |-> p.permalink, status |-> "ChecksFailed"]

\* a pending rollup is reported as waiting for approval
classify_needs_approval(p) ==
    IF ~p.merged /\ p.mergeable # "MERGEABLE" /\ p.commit = "commit" /\ p.rollup = "PENDING"
        THEN [status |-> "NeedsApproval", permalink |-> p.permalink]
        ELSE PullState(p)

\* check_status lines 175-177: github_api.fetch_pull_state(..).await
classify(p) == PullState(p)

\* a merged pull request is also listed as mergeable
push_state_twice(r, state) ==
    CASE state.status = "ChecksFailed" ->
             [r EXCEPT !.checks_failed = Append(@, state.permalink)]
      [] state.status = "NeedsApproval" ->
             [r EXCEPT !.not_approved = Append(@, state.permalink)]
      [] state.status = "Mergeable" ->
             [r EXCEPT !.mergeable = Append(@, state.permalink)]
      [] OTHER -> [r EXCEPT !.merged = Append(@, state.permalink),
                            !.mergeable = Append(@, state.permalink)]

\* check_status lines 179-184: match state.status
push_state(r, state) ==
    CASE state.status = "ChecksFailed" ->
             [r EXCEPT !.checks_failed = Append(@, state.permalink)]
      [] state.status = "NeedsApproval" ->
             [r EXCEPT !.not_approved = Append(@, state.permalink)]
      [] state.status = "Mergeable" ->
             [r EXCEPT !.mergeable = Append(@, state.permalink)]
      [] OTHER -> [r EXCEPT !.merged = Append(@, state.permalink)]

\* lines 187-190: Vec::sort of the lines of a section
sort(lines) == SortSeq(lines, LAMBDA a, b : a[1] < b[1] \/ (a[1] = b[1] /\ a[2] < b[2]))

\* what check_status leaves alone
ReportFrame ==
    UNCHANGED <<phase, run, opts, definition_steps, file, backup, migration_input,
                next_task, pc, step_no, tree_dirty, result_map, trace, error_log,
                errors_file, forge, pushes, gh_pull, pull_state, gh_repo, sync, url,
                github_info, logs>>

\* lines 165-166: the state file is read and parsed and the client is built;
\* an error of either is returned
StartCheckStatus ==
    /\ report.at = "idle"
    /\ \E read_ok \in BOOLEAN :
           report' = IF read_ok THEN [report EXCEPT !.at = "loop"]
                                ELSE [report EXCEPT !.at = "error", !.failed = "read"]
    /\ ReportFrame

\* lines 167-185: one iteration of the loop over the targets, in key order. A
\* target without pull request is passed over; an error of
\* extract_github_info or of fetch_pull_state is returned.
CheckTarget ==
    /\ report.at = "loop"
    /\ report.next \in DOMAIN file
    /\ LET t == report.next
           target == file[t] IN
       IF ~target.pull_request.some
           THEN report' = [report EXCEPT !.next = @ + 1]
       ELSE IF ~extract_github_info_ok(target.repo)
           THEN report' = [report EXCEPT !.at = "error", !.failed = "repo"]
       ELSE \E fetch_ok \in BOOLEAN, g \in GhPulls :
           IF ~fetch_ok
               THEN report' = [report EXCEPT !.at = "error", !.failed = "fetch"]
               ELSE report' = [push_state(report,
                                   classify(fetch_pr_details(t, target.pull_request.pr_number, g)))
                                   EXCEPT !.next = @ + 1]
    /\ ReportFrame

\* lines 187-214: the loop has ended; the sections are sorted and printed
PrintReport ==
    /\ report.at = "loop"
    /\ report.next \notin DOMAIN file
    /\ report' = [report EXCEPT !.at = "printed",
                     !.checks_failed = sort(@), !.not_approved = sort(@),
                     !.mergeable = sort(@), !.merged = sort(@),
                     !.printed = <<sort(report.checks_failed), sort(report.not_approved),
                                   sort(report.mergeable), sort(report.merged)>>]
    /\ ReportFrame

\* a state file after campaign runs: targets with and without a pull request
InitReport ==
    /\ phase = "idle"
    /\ run = 1
    /\ opts = "none"
    /\ definition_steps = WideSteps
    /\ \E repos \in [1..ReportTargets -> Repos], recorded \in [1..ReportTargets -> BOOLEAN] :
           file = [t \in 1..ReportTargets |->
                      [TargetDescription(repos[t], FALSE) EXCEPT !.pull_request =
                           IF recorded[t] THEN CreatedPullRequest(t, 1) ELSE NoPr]]
    /\ backup = <<>>
    /\ migration_input = file
    /\ next_task = 1
    /\ pc = [t \in 1..ReportTargets |-> "queued"]
    /\ step_no = [t \in 1..ReportTargets |-> 1]
    /\ tree_dirty = [t \in 1..ReportTargets |-> FALSE]
    /\ result_map = <<>>
    /\ trace = [t \in 1..ReportTargets |-> <<>>]
    /\ error_log = <<>>
    /\ errors_file = [run |-> 0, lines |-> <<>>]
    /\ forge = [t \in 1..ReportTargets |-> [created |-> 0, open |-> {}]]
    /\ pushes = [t \in 1..ReportTargets |-> 0]
    /\ gh_pull = NoPull
    /\ pull_state = "none"
    /\ gh_repo = NoRepo /\ sync = NoSync /\ url = <<>> /\ github_info = NoInfo
    /\ ReportIdle

NextReport ==
    \/ StartCheckStatus
    \/ CheckTarget
    \/ PrintReport

SpecReport == InitReport /\ [][NextReport]_vars

\* -------------------------------------------------- workspace, the log files
\* One working directory: its two log files and the Workspace that writes
\* them. A file is the sequence of the pieces written to it; commands is the
\* list of the run_command calls of the Workspace with what each call was
\* given, what the subprocess printed and how the call returned.
Commands == {"git clone", "script"}

\* what a subprocess prints on one stream
Outputs == {<<>>, <<"line">>}

\* run_command line 71: format!(">> Running {}\n", args)
notification(args) == <<">> Running ", args, "\n">>

\* the file is written from its start
write_all_from_start(content, buf, written) == SubSeq(buf, 1, written)

\* File::write_all at the position of the handle, which is the end of what
\* the handle wrote before: all of buf when written = Len(buf), else the
\* write failed after that many pieces
write_all(content, buf, written) == content \o SubSeq(buf, 1, written)

\* Workspace::new lines 46-61: File::create truncates stdout.log, then
\* stderr.log; the second may fail after the first was truncated
NewWorkspace ==
    /\ logs.at \in {"none", "ready"}
    /\ \E created \in {"both", "stdout"} :
           logs' = IF created = "both"
                       THEN [at |-> "ready", stdout |-> <<>>, stderr |-> <<>>,
                             commands |-> <<>>]
                       ELSE [logs EXCEPT !.at = "none", !.stdout = <<>>,
                                         !.commands = <<>>]
    /\ UNCHANGED <<phase, run, opts, definition_steps, file, backup, migration_input,
                   next_task, pc, step_no, tree_dirty, result_map, trace, error_log,
                   errors_file, forge, pushes, gh_pull, pull_state, gh_repo, sync, url,
                   github_info, report>>

\* run_command lines 68-87: the notification is written to stdout.log, then to
\* stderr.log, and the subprocess is spawned; the first write that fails
\* returns an IoError and nothing after it happens
RunCommand ==
    /\ logs.at = "ready"
    /\ Len(logs.commands) < MaxCommands
    /\ \E args \in Commands, out \in 0..3, err \in 0..3 :
        LET head == notification(args)
            call(result) == [args |-> args, stdout |-> <<>>, stderr |-> <<>>,
                             result |-> result] IN
        /\ out < Len(head) => err = 0
        /\ logs' = [at |-> IF out = Len(head) /\ err = Len(head) THEN "spawned" ELSE "ready",
                    stdout |-> write_all(logs.stdout, head, out),
                    stderr |-> write_all(logs.stderr, head, err),
                    commands |-> Append(logs.commands,
                                    call(IF out = Len(head) /\ err = Len(head)
                                             THEN "running" ELSE "IoError"))]
    /\ UNCHANGED <<phase, run, opts, definition_steps, file, backup, migration_input,
                   next_task, pc, step_no, tree_dirty, result_map, trace, error_log,
                   errors_file, forge, pushes, gh_pull, pull_state, gh_repo, sync, url,
                   github_info, report>>

\* run_command lines 81-92: output().await fails, or the subprocess has ended
\* and what it printed is written to stdout.log, then to stderr.log
CommandExits ==
    /\ logs.at = "spawned"
    /\ LET n == Len(logs.commands) IN
       \/ logs' = [logs EXCEPT !.at = "ready", !.commands[n].result = "IoError"]
       \/ \E stdout \in Outputs, stderr \in Outputs :
          \E out \in 0..Len(stdout), err \in 0..Len(stderr) :
              /\ out < Len(stdout) => err = 0
              /\ logs' = [at |-> "ready",
                          stdout |-> write_all(logs.stdout, stdout, out),
                          stderr |-> write_all(logs.stderr, stderr, err),
                          commands |-> [logs.commands EXCEPT
                              ![n].stdout = stdout, ![n].stderr = stderr,
                              ![n].result = IF out = Len(stdout) /\ err = Len(stderr)
                                                THEN "Ok" ELSE "IoError"]]
    /\ UNCHANGED <<phase, run, opts, definition_steps, file, backup, migration_input,
                   next_task, pc, step_no, tree_dirty, result_map, trace, error_log,
                   errors_file, forge, pushes, gh_pull, pull_state, gh_repo, sync, url,
                   github_info, report>>

InitLog ==
    /\ CampaignIdle
    /\ gh_repo = NoRepo
    /\ sync = NoSync
    /\ url = <<>>
    /\ github_info = NoInfo
    /\ report = NoReport
    /\ logs = NoLogs

NextLog ==
    \/ NewWorkspace
    \/ RunCommand
    \/ CommandExits

SpecLog == InitLog /\ [][NextLog]_vars

\* ==================================================================== claims
Last(sq) == sq[Len(sq)]

\* place of a step in Clone, PreFlight, migration steps 1..N, Push, Publish
Rank(e) ==
    CASE e.step = "clone" -> 1
      [] e.step = "pre-flight" -> 2
      [] e.step = "migration-step" -> 2 + e.n
      [] e.step = "push" -> 3 + definition_steps
      [] OTHER -> 4 + definition_steps

\* the steps a target has executed follow the fixed order and only the last of
\* them may have an outcome other than Continue
InOrder(tr) ==
    /\ tr # <<>> => tr[1].step = "clone"
    /\ \A i \in 1..(Len(tr) - 1) :
        /\ tr[i].outcome = "Continue"
        /\ \/ Rank(tr[i + 1]) = Rank(tr[i]) + 1
           \/ /\ Rank(tr[i]) = 2 + definition_steps
              /\ tr[i + 1].step = "pull-request"
              /\ ~is_push_enabled(opts)

\* a target whose status is recorded, or whose process has ended, executes no
\* further step and has no further effect on the remote or on the forge
Stopped(t) == pc[t] \in {"done", "dead"}

NoStepAfterStop ==
    \A t \in Targets :
        Stopped(t) /\ run' = run =>
                      /\ trace'[t] = trace[t]
                      /\ pushes'[t] = pushes[t]
                      /\ forge'[t].created = forge[t].created

C2_ConcurrencyBound == Cardinality({t \in Targets : Running(t)}) <= 3

C2_Witness ==
    /\ Cardinality({t \in Targets : Running(t)}) = 3
    /\ next_task \in Targets
    /\ pc[next_task] = "queued"

\* the status recorded for t is the one of t's own pipeline
OwnResult(t) ==
    LET r == result_map[t].result IN
    /\ r.name = "skip" => migration_input[t].skip /\ trace[t] = <<>>
    /\ r.name \in {"clone", "pre-flight", "push"} =>
           /\ trace[t] # <<>>
           /\ Last(trace[t]).step = r.name
           /\ Last(trace[t]).outcome = Outcome(r)
    /\ r.pr.some =>
           /\ r.pr.url = <<t, r.pr.pr_number>>
           /\ Last(trace[t]).step = "pull-request"
           /\ Last(trace[t]).n = r.pr.pr_number

\* C3: every pipeline is run once per campaign run and its status is inserted
\* under its own name: while the stream runs the map holds exactly the targets
\* whose task has ended, each with the status of its own pipeline, and when the
\* stream has finished it holds exactly one entry per target.
C3_ResultMap ==
    /\ phase = "running" => DOMAIN result_map = {t \in Targets : pc[t] = "done"}
    /\ phase \in {"created", "written", "done"} => DOMAIN result_map = Targets
    /\ phase \in {"running", "created", "written", "done"} =>
           \A t \in DOMAIN result_map :
               /\ OwnResult(t)
               /\ Cardinality({i \in DOMAIN trace[t] : trace[t][i].step = "clone"}) <= 1

C3_Witness ==
    /\ phase = "done"
    /\ DOMAIN result_map = Targets
    /\ \E t, u \in Targets :
        /\ t # u
        /\ ~result_map[t].result.ok
        /\ result_map[u].result.pr.some

\* C4: no outcome of a pipeline stops the campaign: run_migration fails only
\* before any pipeline has started, a run that has pipelines always has a next
\* step whatever has been recorded, and the state file is rewritten only with
\* every target's status recorded.
C4_SchedulerNeverFails ==
    /\ phase = "failed" => result_map = <<>> /\ \A t \in Targets : pc[t] = "queued"
    /\ phase \in {"running", "created", "written"} => ENABLED Next
    /\ phase \in {"created", "written", "done"} =>
           \A t \in Targets : pc[t] = "done" /\ t \in DOMAIN result_map

C4_Witness ==
    /\ phase = "done"
    /\ \E t, u \in Targets :
        /\ t < u
        /\ Outcome(result_map[t].result) = "Failure"
        /\ Outcome(result_map[u].result) = "Abort"
    /\ \E t \in Targets : Outcome(result_map[t].result) = "Continue"

\* the state file as the current invocation read it
StartFile == backup[Len(backup)]

\* C5: after a campaign run, a target whose pipeline ended with a successful
\* publish has in the rewritten state file exactly the pull request its own
\* pipeline returned, the rest of its record unchanged; every other target's
\* record is the one the run read at its start.
C5_StateRewritten ==
    phase \in {"written", "done"} =>
        \A t \in Targets :
            LET r == result_map[t].result IN
            IF result_map[t].variant = "PullRequest" /\ Outcome(r) = "Continue"
                THEN /\ file[t] = [StartFile[t] EXCEPT !.pull_request = r.pr]
                     /\ r.pr.some
                     /\ r.pr.url = <<t, r.pr.pr_number>>
                     /\ Last(trace[t]).op \in {"update", "create"}
                     /\ Last(trace[t]).n = r.pr.pr_number
                ELSE file[t] = StartFile[t]

C5_Witness ==
    /\ phase = "done"
    /\ run = 2
    /\ \E t, u \in Targets :
        /\ StartFile[t].pull_request.some
        /\ Outcome(result_map[t].result) = "Failure"
        /\ file[t].pull_request.some
        /\ Outcome(result_map[u].result) = "Continue"
        /\ file[u].pull_request # StartFile[u].pull_request

\* the task of t ended without a step having failed, because the target is
\* skipped, the pre-flight command did not succeed, dry-run is set, or pull
\* requests are disabled and there is none to update
StoppedByChoice(t) ==
    /\ t \in DOMAIN result_map
    /\ pc[t] = "done"
    /\ \/ StartFile[t].skip
       \/ /\ trace[t] # <<>>
          /\ Last(trace[t]).step = "pre-flight"
          /\ Last(trace[t]).outcome # "Continue"
       \/ /\ Len(trace[t]) = 2 + definition_steps
          /\ Last(trace[t]).outcome = "Continue"
          /\ ~tree_dirty[t]
          /\ opts = "dry_run"
       \/ /\ trace[t] # <<>>
          /\ Last(trace[t]).step = "push"
          /\ Last(trace[t]).outcome = "Continue"
          /\ opts = "skip_pull_request"
          /\ ~StartFile[t].pull_request.some

\* C6: no Abort outcome is reported as a failure: a task stopped by skip, by
\* the pre-flight command, by dry-run or by disabled pull requests has an Ok
\* result, adds no line to the error log and does not by itself make the run
\* write the error-summary file.
C6_AbortsNotFailures ==
    /\ \A t \in Targets :
        phase \in {"running", "created", "written", "done"} /\ StoppedByChoice(t) =>
            /\ result_map[t].result.ok
            /\ \A i \in DOMAIN error_log : error_log[i].target # t
    /\ phase = "done" /\ (\A t \in Targets : StoppedByChoice(t)) => errors_file.run # run

\* C7: in Publish for a target with a remembered pull request, a pull request
\* that is open is updated and none is created; one that is closed or merged
\* is replaced by a created one and not updated; a successful Publish made
\* exactly one of the two calls.
C7_UpdateOrCreate ==
    \A t \in Targets : \A i \in DOMAIN trace[t] :
        LET e == trace[t][i]
            remembered == StartFile[t].pull_request IN
        e.step = "pull-request" /\ remembered.some =>
            /\ e.outcome = "Continue" => e.op \in {"update", "create"}
            /\ e.op # "none" => (e.op = "update" <=> e.was_open)
            /\ e.op = "update" /\ e.outcome = "Continue" => e.n = remembered.pr_number
            /\ e.op = "create" /\ e.outcome = "Continue" =>
                   e.n = forge[t].created /\ e.n # remembered.pr_number

C7_Witness ==
    \E t \in Targets :
        /\ trace[t] # <<>>
        /\ StartFile[t].pull_request.some
        /\ Last(trace[t]).step = "pull-request"
        /\ Last(trace[t]).op = "create"
        /\ ~Last(trace[t]).was_open
        /\ Last(trace[t]).outcome = "Continue"

\* C8: a run that finds in the state file a pull request n of target T that is
\* open updates n and creates no pull request: n is the only pull request
\* created for T since it was recorded, and the rewritten state file records n.
C8_Idempotent ==
    \A t \in Targets :
        backup # <<>> /\ StartFile[t].pull_request.some
            /\ StartFile[t].pull_request.pr_number \in forge[t].open =>
                /\ \A i \in DOMAIN trace[t] : trace[t][i].op # "create"
                /\ forge[t].created = StartFile[t].pull_request.pr_number
                /\ phase \in {"written", "done"} =>
                       file[t].pull_request = StartFile[t].pull_request

C8_Witness ==
    /\ run = 2
    /\ phase = "done"
    /\ \E t \in Targets :
        /\ StartFile[t].pull_request.some
        /\ StartFile[t].pull_request.pr_number \in forge[t].open
        /\ trace[t] # <<>>
        /\ Last(trace[t]).op = "update"
        /\ Last(trace[t]).outcome = "Continue"
        /\ forge[t].created = 1

\* C9: the status computed for a pull request follows the priority table:
\* merged gives Merged; else the mergeable flag gives Mergeable; else no commit
\* or no rollup gives ChecksFailed; else a rollup of SUCCESS or PENDING gives
\* Mergeable; else ChecksFailed.
C9_Classification ==
    pull_state # "none" =>
        /\ gh_pull.merged => pull_state = "Merged"
        /\ ~gh_pull.merged /\ gh_pull.mergeable = "MERGEABLE" => pull_state = "Mergeable"
        /\ ~gh_pull.merged /\ gh_pull.mergeable # "MERGEABLE" =>
            /\ gh_pull.commit # "commit" \/ gh_pull.rollup = "none" =>
                   pull_state = "ChecksFailed"
            /\ gh_pull.commit = "commit" /\ gh_pull.rollup \in {"SUCCESS", "PENDING"} =>
                   pull_state = "Mergeable"
            /\ gh_pull.commit = "commit" /\ gh_pull.rollup \in {"FAILURE", "ERROR", "EXPECTED"} =>
                   pull_state = "ChecksFailed"

C9_Witness ==
    /\ pull_state = "Merged"
    /\ gh_pull.mergeable = "MERGEABLE"
    /\ gh_pull.commit = "commit"
    /\ gh_pull.rollup = "FAILURE"

Scheduled == phase \in {"running", "created", "written", "done"}

\* C11: the pipeline goes on after PreFlight exactly when the pre-flight command
\* exited with status 0; a non-zero exit status ends the task with
\* abort("pre-flight"), a terminal Ok result, never an Err.
C11_PreFlight ==
    \A t \in Targets : \A i \in DOMAIN trace[t] :
        LET e == trace[t][i] IN
        e.step = "pre-flight" =>
            /\ e.outcome = "Continue" <=> e.ends = "ok"
            /\ e.ends = "nonzero" =>
                /\ e.outcome = "Abort"
                /\ i = Len(trace[t])
                /\ Scheduled =>
                    /\ pc[t] = "done"
                    /\ result_map[t] = EmptyResponse(abort("pre-flight"))
                    /\ result_map[t].result.ok
                    /\ Outcome(result_map[t].result) = "Abort"

C11_Witness ==
    /\ phase = "done"
    /\ \E t, u \in Targets :
        /\ Len(trace[t]) = 2
        /\ trace[t][2].ends = "nonzero"
        /\ result_map[t] = EmptyResponse(abort("pre-flight"))
        /\ Len(trace[u]) > 2
        /\ trace[u][2].ends = "ok"
        /\ trace[u][3].step = "migration-step"

\* C12: whenever the script of a migration step has exited 0 and the working
\* tree is not clean afterwards, the task has ended with the failure
\* WorkingDirNotClean of that step: the step is never passed as Continue, and
\* this holds after each step, not only after the last one.
C12_DirtyStepFails ==
    \A t \in Targets :
        /\ phase = "running"
        /\ trace[t] # <<>>
        /\ Last(trace[t]).step = "migration-step"
        /\ Last(trace[t]).ends = "ok"
        /\ tree_dirty[t]
        => /\ pc[t] = "done"
           /\ t \in DOMAIN result_map
           /\ result_map[t] = EmptyResponse(failure("migration-step:untracked_files",
                                                    "WorkingDirNotClean"))

\* every command of Clone, PreFlight and the migration steps succeeded and the
\* tree is clean
StepsPassed(t) ==
    /\ Len(trace[t]) >= 2 + definition_steps
    /\ \A i \in 1..(2 + definition_steps) : trace[t][i].outcome = "Continue"
    /\ ~tree_dirty[t]

\* with dry_run set no push and no forge call is logged, a task in Clone,
\* PreFlight or a migration step can take its step, and a task whose steps all
\* passed has ended with an Ok result
DryRunState ==
    opts = "dry_run" =>
        \A t \in Targets :
            /\ \A i \in DOMAIN trace[t] : trace[t][i].step \notin {"push", "pull-request"}
            /\ pc[t] \notin {"push", "publish"}
            /\ phase = "running" /\ pc[t] \in {"clone", "pre-flight", "steps"} =>
                   ENABLED Pipeline(t)
            /\ Scheduled /\ pc[t] = "done" /\ StepsPassed(t) =>
                   /\ result_map[t].result.ok
                   /\ result_map[t].result.name = "dry-run"

\* with dry_run set no step changes the remote or creates a pull request
DryRunStep ==
    opts = "dry_run" /\ run' = run =>
        \A t \in Targets : pushes'[t] = pushes[t] /\ forge'[t].created = forge[t].created

\* C13: with the dry-run flag Clone, PreFlight and the migration steps run as
\* they do without it, the remote is never pushed to, no forge create or update
\* call is made, and the pipeline whose steps passed ends in a non-error outcome.
C13_DryRun == []DryRunState /\ [][DryRunStep]_vars

C13_Witness ==
    /\ opts = "dry_run"
    /\ phase = "done"
    /\ definition_steps = 2
    /\ \E t \in Targets :
        /\ StartFile[t].pull_request.some
        /\ StartFile[t].pull_request.pr_number \in forge[t].open
        /\ Len(trace[t]) = 4
        /\ StepsPassed(t)
        /\ Outcome(result_map[t].result) = "Abort"

\* C14: git push runs only when push is enabled; with push disabled a pipeline
\* whose steps passed stops at Push with an Abort, Publish is not executed and
\* no forge create or update call is made for the target.
C14_PushGate ==
    \A t \in Targets :
        /\ \A i \in DOMAIN trace[t] : trace[t][i].step = "push" => is_push_enabled(opts)
        /\ ~is_push_enabled(opts) =>
            /\ pc[t] # "publish"
            /\ \A i \in DOMAIN trace[t] : trace[t][i].step # "pull-request"
            /\ Scheduled /\ pc[t] = "done" /\ StepsPassed(t) =>
                   Outcome(result_map[t].result) = "Abort"

\* with skip_push set no push is logged, and the task of a target with a
\* remembered pull request whose steps passed has made the forge call: an
\* update of that pull request when it was found open
SkipPushState ==
    opts = "skip_push" =>
        \A t \in Targets :
            /\ pc[t] # "push"
            /\ \A i \in DOMAIN trace[t] : trace[t][i].step # "push"
            /\ Scheduled /\ pc[t] = "done" /\ StepsPassed(t)
                   /\ StartFile[t].pull_request.some =>
                /\ Last(trace[t]).step = "pull-request"
                /\ Last(trace[t]).op # "none" /\ Last(trace[t]).was_open =>
                       Last(trace[t]).op = "update"
                /\ Last(trace[t]).op = "update" /\ Last(trace[t]).outcome = "Continue" =>
                    /\ Last(trace[t]).n = StartFile[t].pull_request.pr_number
                    /\ result_map[t].result.pr = StartFile[t].pull_request

SkipPushStep == opts = "skip_push" /\ run' = run => pushes' = pushes

FileState ==
    phase = "running" =>
        /\ backup # <<>>
        /\ file = StartFile
        /\ migration_input = StartFile

\* the backup is written before any task has started, as a copy of the file
\* read; the state file changes only once all tasks have ended, first truncated
\* and then written, by run_migration and by no step of a task
FileStep ==
    /\ backup' # backup =>
        /\ phase = "idle"
        /\ backup' = Append(backup, file)
        /\ file' = file
        /\ migration_input' = file
        /\ \A t \in Targets : pc'[t] = "queued"
    /\ file' # file =>
        /\ phase \in {"running", "created"}
        /\ \A t \in Targets : pc[t] = "done" /\ t \in DOMAIN result_map
        /\ <<pc, trace, forge, pushes, result_map>>' = <<pc, trace, forge, pushes, result_map>>
        /\ phase = "running" => file' = <<>> /\ phase' = "created"
        /\ phase = "created" => file' = migration_input /\ phase' = "written"
    /\ phase \in {"written", "done"} => file' = file

\* C17: in one campaign run the state file is read once, the backup equal to the
\* file as read is written before any pipeline starts and before the file is
\* modified, the file is written once, after every pipeline has reached its
\* terminal outcome, and no pipeline writes it.
C17_FileOrder == []FileState /\ [][FileStep]_vars

C17_Witness ==
    /\ phase = "done"
    /\ run = 2
    /\ Len(backup) = 2
    /\ backup[1] # backup[2]
    /\ file # backup[2]
    /\ \E t \in Targets : Outcome(result_map[t].result) = "Failure"

\* C18: at every instant the state file holds a complete document: the state
\* as it was at the start of the campaign run or the updated state, never an
\* empty or partial one.
C18_AtomicRewrite ==
    /\ file # <<>>
    /\ phase \in {"running", "created", "unwritten"} => file = StartFile
    /\ phase \in {"written", "done"} => file = migration_input

\* C19: no two tasks that run at the same time hold a workspace in the same
\* directory, with the same stdout.log and stderr.log, and no task removes the
\* directory or truncates the logs that another running task is using.
C19_ExclusiveDirs ==
    \A t, u \in Targets :
        t # u /\ workspace_of(t) # "none" /\ workspace_of(u) # "none" =>
            workspace_of(t) # workspace_of(u)

\* C20: a target whose repo does not resolve to an owner and a repository is a
\* failure of that target only: the campaign run is not given up, the target is
\* recorded with the failure InvalidGitRepo in the result map and in the error
\* log, and the other targets are run and the state file is rewritten.
C20_InvalidRepoLocal ==
    \A t \in Targets :
        phase \notin {"idle", "followup"} /\ file # <<>> /\ ~extract_github_info_ok(file[t].repo) =>
            /\ phase # "failed"
            /\ phase \in {"written", "done"} =>
                /\ result_map[t] = EmptyResponse(failure("invalid-url", "InvalidGitRepo"))
                /\ \E i \in DOMAIN error_log : error_log[i].target = t
                /\ \A u \in Targets : u \in DOMAIN result_map

\* the targets whose recorded result is an error
Failed == {t \in DOMAIN result_map : Outcome(result_map[t].result) = "Failure"}

\* C21: a campaign run that reaches its end writes the error-summary file if
\* and only if at least one target ended in Failure; the file then holds one
\* line per failed target, with the target's name and its error, and no line
\* for a target that succeeded or aborted.
C21_ErrorSummary ==
    phase = "done" =>
        /\ errors_file.run = run <=> Failed # {}
        /\ errors_file.run = run =>
            /\ errors_file.lines = error_log
            /\ Len(errors_file.lines) = Cardinality(Failed)
            /\ \A t \in Failed : \E i \in DOMAIN errors_file.lines :
                   /\ errors_file.lines[i].target = t
                   /\ errors_file.lines[i].error = result_map[t].result.err
            /\ \A i \in DOMAIN errors_file.lines : errors_file.lines[i].target \in Failed

C21_Witness ==
    /\ phase = "done"
    /\ run = 2
    /\ errors_file.run = 2
    /\ Len(errors_file.lines) = 1
    /\ \E t \in Targets : Outcome(result_map[t].result) = "Abort"

\* C22: the follow-up script is run for a target only when the target has a
\* recorded pull request and that pull request is not merged: for a merged pull
\* request the task stops before a workspace is created or the script is started.
C22_FollowupOpenOnly ==
    \A t \in Targets :
        phase = "followup" /\ pc[t] = "follow-up" =>
            /\ file[t].pull_request.some
            /\ trace[t] # <<>>
            /\ Last(trace[t]).step = "pull-state"
            /\ Last(trace[t]).outcome # "Merged"

\* a Publish step has been executed in the forge-client specification
Synced == sync.calls # <<>>

\* C23: when the target has no remembered pull request, Publish sends no
\* pull-request lookup and no update; the pull request it creates has the
\* repository's current default branch as base, the configured branch as head
\* and the title and body of the definition, and the number and url returned
\* become the pull request of the target in the campaign state.
C23_CreateWithoutRemembered ==
    Synced /\ ~sync.existing_pr.some =>
        /\ \A i \in DOMAIN sync.calls :
               sync.calls[i].kind \notin {"fetch_pr_details", "UpdatePullRequestMutation"}
        /\ sync.at = "returned" /\ Outcome(sync.result) = "Continue" =>
               LET c == Last(sync.calls)
                   n == sync.result.pr.pr_number IN
               /\ c.kind = "CreatePullRequestMigration"
               /\ c.variables.base_ref = <<"refs/heads/", gh_repo.default_branch>>
               /\ c.variables.head_ref = <<"refs/heads/", "branch_name">>
               /\ c.variables.title = sync.title
               /\ c.variables.body = sync.body
               /\ n = gh_repo.created
               /\ n \in gh_repo.open
               /\ gh_repo.pulls[n] = [base_ref |-> <<"refs/heads/", gh_repo.default_branch>>,
                                      head_ref |-> <<"refs/heads/", "branch_name">>,
                                      title |-> sync.title, body |-> sync.body]
        /\ sync.at = "idle" /\ Outcome(sync.result) = "Continue" =>
               /\ sync.pull_request.some
               /\ sync.pull_request = sync.result.pr
               /\ sync.pull_request.url = <<1, sync.pull_request.pr_number>>

C23_Witness ==
    /\ Synced /\ ~sync.existing_pr.some
    /\ sync.at = "idle"
    /\ sync.pull_request.some /\ sync.pull_request.pr_number = 1
    /\ Len(sync.calls) = 2
    /\ gh_repo.pulls[1].base_ref = <<"refs/heads/", "develop">>
    /\ gh_repo.pulls[1].title = "title-2"

\* C29: an update carries the pull request id, the title and the body and
\* nothing else, and no step of any run changes the base branch or the head
\* branch of a pull request that exists.
C29_UpdateKeepsBranches ==
    [][/\ \A n \in DOMAIN gh_repo.pulls :
              /\ gh_repo'.pulls[n].base_ref = gh_repo.pulls[n].base_ref
              /\ gh_repo'.pulls[n].head_ref = gh_repo.pulls[n].head_ref
       /\ \A i \in DOMAIN sync'.calls :
              sync'.calls[i].kind = "UpdatePullRequestMutation" =>
                  DOMAIN sync'.calls[i].variables = {"pull_request_id", "body", "title"}]_vars

C29_Witness ==
    /\ sync.at = "returned" /\ Outcome(sync.result) = "Continue"
    /\ Last(sync.calls).kind = "UpdatePullRequestMutation"
    /\ LET n == sync.result.pr.pr_number IN
       /\ gh_repo.pulls[n].base_ref # <<"refs/heads/", gh_repo.default_branch>>
       /\ gh_repo.pulls[n].title = "title-2" /\ gh_repo.pulls[n].body = "body-2"

\* C24: a command of a step counts as successful exactly when it exited with
\* code 0, and every other ending (another exit code, termination by a signal,
\* a spawn or I/O error) is returned to the step as an error: no command ends
\* in a panic and the campaign run is never torn down by one.
C24_CommandErrors ==
    /\ phase # "panicked"
    /\ \A t \in Targets : \A i \in DOMAIN trace[t] :
           trace[t][i].ends # "none" =>
               /\ trace[t][i].outcome = "Continue" <=> trace[t][i].ends = "ok"
               /\ trace[t][i].outcome # "panic"

\* how the error of a failed migration step reads, by the position of the step
StepErrorText == <<"MigrationStepErrored{1}", "MigrationStepErrored{2}",
                   "MigrationStepErrored{3}", "MigrationStepErrored{4}">>

\* C27: a migration step whose command exits non-zero or cannot be run is the
\* last thing its task does: the task ends as the failure MigrationStepErrored
\* carrying the name of exactly that step, not as a finding of the working-tree
\* check, and no later step is run.
C27_StepErrored ==
    \A t \in Targets : \A i \in DOMAIN trace[t] :
        LET e == trace[t][i] IN
        e.step = "migration-step" /\ e.ends \in {"nonzero", "io"} =>
            /\ e.outcome = "Failure"
            /\ i = Len(trace[t])
            /\ e.n = i - 2
            /\ Scheduled =>
                /\ pc[t] = "done"
                /\ result_map[t] =
                       EmptyResponse(failure("migration-step:exec", StepErrorText[e.n]))
                /\ Outcome(result_map[t].result) = "Failure"

C27_Witness ==
    /\ phase = "done"
    /\ definition_steps = 2
    /\ \E t, u \in Targets :
        /\ Len(trace[t]) = 4
        /\ trace[t][4].ends = "nonzero"
        /\ tree_dirty[t]
        /\ result_map[t].result.err = "MigrationStepErrored{2}"
        /\ Len(trace[u]) = 3
        /\ trace[u][3].ends = "io"
        /\ result_map[u].result.err = "MigrationStepErrored{1}"

\* C28: Publish ends as Continue or as Failure, never as Abort. It is Continue,
\* carrying the number and permalink of the pull request the forge created or
\* updated, when every request succeeded, and the failure
\* UnableToCreatePullRequest when a request failed; when the lookup of the
\* remembered pull request failed, no other request was sent.
C28_PublishOutcomes ==
    Synced =>
        /\ Outcome(sync.result) \in {"Continue", "Failure"}
        /\ Outcome(sync.result) = "Failure" <=> \E i \in DOMAIN sync.calls : ~sync.calls[i].ok
        /\ Outcome(sync.result) = "Failure" =>
               sync.result = failure("pull-request", "UnableToCreatePullRequest")
        /\ Outcome(sync.result) = "Continue" =>
               LET n == sync.result.pr.pr_number IN
               /\ sync.result.pr.some
               /\ n \in DOMAIN gh_repo.pulls
               /\ sync.result.pr.url = <<1, n>>
               /\ Last(sync.calls).kind \in {"CreatePullRequestMigration",
                                             "UpdatePullRequestMutation"}
               /\ Last(sync.calls).kind = "UpdatePullRequestMutation" =>
                      n = sync.existing_pr.pr_number
        /\ sync.existing_pr.some /\ ~sync.calls[1].ok =>
               /\ sync.calls[1].kind = "fetch_pr_details"
               /\ Len(sync.calls) = 1

C28_Witness ==
    /\ sync.at = "returned"
    /\ sync.existing_pr.some
    /\ sync.existing_pr.pr_number \in gh_repo.open
    /\ Len(sync.calls) = 1
    /\ ~sync.calls[1].ok
    /\ Outcome(sync.result) = "Failure"

\* C30: Clone ends as Continue or, for every error in cloning, creating the
\* branch or checking it out, as the failure UnableToCheckoutRepo; after a
\* failed Clone the working directory of the workspace is still its root and
\* nothing else is run for the target.
C30_CloneFailure ==
    \A t \in Targets : \A i \in DOMAIN trace[t] :
        LET e == trace[t][i] IN
        e.step = "clone" =>
            /\ e.outcome \in {"Continue", "Failure"}
            /\ e.ends # "ok" => e.outcome = "Failure"
            /\ e.outcome = "Failure" =>
                /\ i = Len(trace[t])
                /\ working_dir(t) = "root"
                /\ Scheduled => result_map[t] =
                                    EmptyResponse(failure("clone", "UnableToCheckoutRepo"))

\* owner and repository names made of letters
Letters == {"a", "b"}

\* C25: for a URL that is one of the two host prefixes followed by O/R or
\* O/R.git, with O and R names, extract_github_info returns owner O and
\* repository R without the .git suffix; for every URL that does not start with
\* one of the two host prefixes followed by an owner, a slash and a repository
\* it returns the error UnableToDetermineRepo.
C25_ExtractGithubInfo ==
    github_info # NoInfo =>
        LET recognized == /\ Len(url) >= 3
                          /\ SubSeq(url, 1, 3) \in {<<"https://github", ".", "com/">>,
                                                    <<"git@github", ".", "com:">>}
            slashes == {i \in 5..(Len(url) - 1) : url[i] = "/"} IN
        /\ recognized =>
               \A i \in slashes : \A n \in (i + 1)..Len(url) :
                   /\ \A j \in (4..(i - 1)) \cup ((i + 1)..n) : url[j] \in Letters
                   /\ n = Len(url) \/ (n = Len(url) - 1 /\ url[Len(url)] = ".git")
                   => /\ github_info.ok
                      /\ github_info.owner = SubSeq(url, 4, i - 1)
                      /\ github_info.repo = SubSeq(url, i + 1, n)
        /\ ~(recognized /\ slashes # {}) =>
               /\ ~github_info.ok
               /\ github_info.err = "UnableToDetermineRepo"

\* the stream of tasks has ended and every target has its status in the map
Completed ==
    /\ phase \in {"created", "written", "unwritten", "done"}
    /\ \A t \in Targets : t \in DOMAIN result_map /\ pc[t] = "done"

\* C26: every pipeline that was started reaches a terminal outcome, which is
\* recorded, and a campaign run that has started its stream of tasks completes
\* with the outcome of every target recorded.
C26_RunCompletes ==
    /\ \A t \in 1..NumTargets :
           (phase = "running" /\ Running(t)) ~> (pc[t] = "done" /\ t \in DOMAIN result_map)
    /\ (phase = "running") ~> Completed

\* the lines of the four sections, as collected so far
Sections == <<report.checks_failed, report.not_approved, report.mergeable, report.merged>>

\* how often the pull request of target t is listed in a section
Listed(t, section) ==
    Cardinality({i \in DOMAIN section : section[i] = <<t, file[t].pull_request.pr_number>>})

\* the targets check-status has fetched the state of
Fetched == {t \in DOMAIN file : t < report.next /\ file[t].pull_request.some}

\* C31: the classification never yields NeedsApproval: every pull request whose
\* state was fetched is listed under Checks Failed, Mergeable or Merged, and the
\* Not Approved section is empty while the report is built and when it is
\* printed.
C31_NeverNeedsApproval ==
    /\ report.not_approved = <<>>
    /\ report.at = "printed" => report.printed[2] = <<>>
    /\ report.at \in {"loop", "printed"} =>
           \A t \in Fetched :
               Listed(t, report.checks_failed) + Listed(t, report.mergeable)
                   + Listed(t, report.merged) = 1

C31_Witness ==
    /\ report.at = "printed"
    /\ Len(report.printed[1]) = 1
    /\ Len(report.printed[3]) = 1
    /\ Len(report.printed[4]) = 1

\* C34: the method GithubApiClient::fetch_pull_state and the free function
\* fetch_pull_state give the same status and the same permalink for every
\* pull request the forge can report.
C34_SameClassification ==
    pull_state # "none" =>
        /\ fetch_pull_state_free(gh_pull) = PullState(gh_pull)
        /\ fetch_pull_state_free(gh_pull).status = pull_state
        /\ fetch_pull_state_free(gh_pull).permalink = gh_pull.permalink

C34_Witness ==
    /\ pull_state = "Mergeable"
    /\ gh_pull.mergeable = "CONFLICTING"
    /\ gh_pull.rollup = "PENDING"
    /\ gh_pull.permalink = <<1, 2>>
    /\ fetch_pull_state_free(gh_pull).status = "Mergeable"

\* C36: in the printed report every target with a recorded pull request is
\* listed exactly once over the four sections and a target without one is not
\* listed; when reading the state file, resolving a repository or fetching the
\* state of a pull request fails, check-status ends with the error and nothing
\* is printed.
C36_ReportSections ==
    /\ report.at = "printed" =>
           /\ report.failed = "none"
           /\ report.printed = Sections
           /\ \A t \in DOMAIN file :
                  LET n == Listed(t, report.printed[1]) + Listed(t, report.printed[2])
                           + Listed(t, report.printed[3]) + Listed(t, report.printed[4]) IN
                  IF file[t].pull_request.some THEN n = 1 ELSE n = 0
           /\ Len(report.printed[1]) + Len(report.printed[2]) + Len(report.printed[3])
                  + Len(report.printed[4])
                  = Cardinality({t \in DOMAIN file : file[t].pull_request.some})
    /\ report.failed # "none" => report.at = "error"
    /\ report.at # "printed" => report.printed = <<>>

C36_Witness ==
    /\ report.at = "printed"
    /\ ~file[1].pull_request.some
    /\ file[1].repo = "invalid"
    /\ file[2].pull_request.some
    /\ file[3].pull_request.some
    /\ Len(report.printed[4]) = 2

\* names of steps a result is built for
StepNames == {"clone", "pre-flight", "migration-step", "push", "pull-request"}

\* C37: a step result whose result is Err is terminal; a result that is not
\* terminal is Ok and was built by success or success_with_result; abort is
\* terminal and Ok. So a step result lets the pipeline continue if and only if
\* a success constructor built it. This holds for the constructors and for
\* every result a task has recorded.
C37_StepResults ==
    /\ \A n \in StepNames :
           /\ failure(n, "IoError").terminal /\ ~failure(n, "IoError").ok
           /\ abort(n).terminal /\ abort(n).ok
           /\ ~success(n).terminal /\ success(n).ok
           /\ ~success_with_result(n, CreatedPullRequest(1, 1)).terminal
           /\ success_with_result(n, CreatedPullRequest(1, 1)).ok
    /\ \A t \in DOMAIN result_map :
           LET r == result_map[t].result IN
           /\ ~r.ok => r.terminal
           /\ ~r.terminal => r.ok
           /\ Outcome(r) = "Continue" <=> r = success_with_result(r.name, r.pr)
           /\ r.terminal /\ r.ok <=> r = abort(r.name)
           /\ ~r.ok <=> r = failure(r.name, r.err)

C37_Witness ==
    /\ phase = "done"
    /\ \E t, u, v \in Targets :
        /\ ~result_map[t].result.ok /\ result_map[t].result.terminal
        /\ result_map[u] = EmptyResponse(abort("pre-flight"))
        /\ ~result_map[v].result.terminal /\ result_map[v].result.pr.some

\* C35: a pre-flight command that could not be launched, or whose log files
\* could not be written, ends its task as abort("pre-flight") like one that
\* exited non-zero: the task is not recorded as a failure and has no line in
\* the error log or in the error file.
C35_PreFlightIoError ==
    \A t \in Targets : \A i \in DOMAIN trace[t] :
        LET e == trace[t][i] IN
        e.step = "pre-flight" /\ e.ends = "io" =>
            /\ e.outcome = "Abort"
            /\ i = Len(trace[t])
            /\ Scheduled =>
                /\ pc[t] = "done"
                /\ result_map[t] = EmptyResponse(abort("pre-flight"))
                /\ Outcome(result_map[t].result) # "Failure"
                /\ \A k \in DOMAIN error_log : error_log[k].target # t
                /\ \A k \in DOMAIN errors_file.lines : errors_file.lines[k].target # t

C35_Witness ==
    /\ phase = "done"
    /\ Len(errors_file.lines) = 1
    /\ \E t \in Targets :
        /\ Len(trace[t]) = 2
        /\ trace[t][2].step = "pre-flight"
        /\ trace[t][2].ends = "io"
        /\ result_map[t] = EmptyResponse(abort("pre-flight"))
        /\ errors_file.lines[1].target # t

\* C33: what a campaign run leaves behind is determined target by target: the
\* map holds for every target the status of its own pipeline, the error log
\* has the lines of the failed targets in the order of their names, each with
\* the target's own error, and the state written is the state the run started
\* from with the pull request of exactly the targets whose own status carries
\* one. Nothing in it depends on the order in which tasks started or ended.
C33_InterleavingFree ==
    phase \in {"created", "written", "done"} =>
        /\ DOMAIN result_map = Targets
        /\ \A t \in Targets : OwnResult(t)
        /\ \A i, j \in DOMAIN error_log : i < j => error_log[i].target < error_log[j].target
        /\ {error_log[i].target : i \in DOMAIN error_log} = Failed
        /\ \A i \in DOMAIN error_log :
               /\ error_log[i].error = result_map[error_log[i].target].result.err
               /\ error_log[i].variant = result_map[error_log[i].target].variant
        /\ migration_input =
               [t \in Targets |->
                   IF result_map[t].variant = "PullRequest" /\ result_map[t].result.ok
                       THEN [StartFile[t] EXCEPT !.pull_request = result_map[t].result.pr]
                       ELSE StartFile[t]]
        /\ phase \in {"written", "done"} => file = migration_input
        /\ phase = "done" /\ error_log # <<>> => errors_file.lines = error_log

C33_Witness ==
    /\ phase = "done"
    /\ Len(errors_file.lines) = 2
    /\ errors_file.lines[1].target = 1
    /\ errors_file.lines[2].target = 4
    /\ file[2].pull_request.some
    /\ Len(trace[1]) > Len(trace[4])

\* what the calls of a Workspace leave in one of its log files: call after
\* call the notification and what the subprocess printed on that stream, in
\* full for a call that returned Ok and up to the failed write for a call that
\* returned an IoError or has not returned
RECURSIVE Logged_in_order(_, _, _)
Logged_in_order(content, calls, stream) ==
    IF calls = <<>> THEN content = <<>>
    ELSE LET call == Head(calls)
             entry == <<">> Running ", call.args, "\n">> \o call[stream] IN
         \E k \in 0..Len(entry) :
             /\ call.result = "Ok" => k = Len(entry)
             /\ Len(content) >= k
             /\ SubSeq(content, 1, k) = SubSeq(entry, 1, k)
             /\ Logged_in_order(SubSeq(content, k + 1, Len(content)), Tail(calls), stream)

\* C32: each of the two log files of a workspace is, call after call in the
\* order of the calls, the line ">> Running <command>" followed by what that
\* command printed on the stream of the file; while a command runs, its line
\* is the end of both files; nothing a call wrote is changed by a later call.
\* A call that returned an IoError leaves its entry cut at the failed write.
C32_LogFiles ==
    logs.at # "none" =>
        /\ Logged_in_order(logs.stdout, logs.commands, "stdout")
        /\ Logged_in_order(logs.stderr, logs.commands, "stderr")
        /\ logs.at = "spawned" =>
               LET line == <<">> Running ", Last(logs.commands).args, "\n">> IN
               \A content \in {logs.stdout, logs.stderr} :
                   /\ Len(content) >= 3
                   /\ SubSeq(content, Len(content) - 2, Len(content)) = line

C32_Witness ==
    /\ logs.at = "ready"
    /\ Len(logs.commands) = 3
    /\ \A n \in 1..3 : logs.commands[n].result = "Ok"
    /\ logs.commands[1].args = "git clone"
    /\ logs.commands[2].args = "script"
    /\ logs.stdout = <<">> Running ", "git clone", "\n", "line", ">> Running ", "script", "\n",
                       ">> Running ", "script", "\n", "line">>
    /\ logs.stderr = <<">> Running ", "git clone", "\n", ">> Running ", "script", "\n", "line",
                       ">> Running ", "script", "\n">>

====
